---- MODULE Spec2Model ----
(***************************************************************************)
(* A state-machine model of the grubby tree-walking interpreter            *)
(* (interpreter/vm/vm.go).  The Go recursion of vm.Run and                 *)
(* vm.executeWithContext is unfolded into an explicit sequence of          *)
(* activation records (goStack); every action below is one step of one     *)
(* activation and is enabled only at the position (pc) the Go code would   *)
(* be at, so a behaviour is exactly one sequential execution of the code.  *)
(* The inputs are the texts of Program; ast.Alias, ast.Array,              *)
(* ast.ConstantFloat and ast.InterpolatedString statements do not occur in *)
(* them and have no action.                                                *)
(***************************************************************************)
EXTENDS Integers, Sequences, FiniteSets, TLC

(***************************************************************************)
(* Bounds of the model.                                                    *)
(***************************************************************************)
\* number of top-level Run calls the host makes on one VM
MaxRuns == 2
\* largest number of live Go activations (the Go stack is finite)
MaxDepth == 14

(***************************************************************************)
(* Syntax-tree nodes (package ast, produced by the external parser).       *)
(***************************************************************************)
ConstantInt(v) == [kind |-> "ConstantInt", IntValue |-> v]
SimpleString(s) == [kind |-> "SimpleString", StrValue |-> s]
Boolean(b) == [kind |-> "Boolean", BoolValue |-> b]
Symbol(n) == [kind |-> "Symbol", Name |-> n]
BareReference(n) == [kind |-> "BareReference", Name |-> n]
GlobalVariable(n) == [kind |-> "GlobalVariable", Name |-> n]
InstanceVariable(n) == [kind |-> "InstanceVariable", Name |-> n]
FileNameConstReference == [kind |-> "FileNameConstReference"]
IfBlock(c, b, e) == [kind |-> "IfBlock", Condition |-> c, Body |-> b, Else |-> e]
ModuleDecl(n, b) == [kind |-> "ModuleDecl", Name |-> n, Body |-> b]
ClassDecl(n, b) == [kind |-> "ClassDecl", Name |-> n, Body |-> b]
\* selfTarget: the declaration is written "def self.name"
FuncDecl(n, a, b, selfTarget) ==
    [kind |-> "FuncDecl", Name |-> n, Args |-> a, Body |-> b, SelfTarget |-> selfTarget]
\* Target is <<>> (no explicit receiver) or <<node>>
CallExpression(t, f, a) == [kind |-> "CallExpression", Target |-> t, Func |-> f, Args |-> a]
Assignment(l, r) == [kind |-> "Assignment", LHS |-> l, RHS |-> r]
Rescue(classes, b) == [kind |-> "Rescue", Classes |-> classes, Body |-> b]
Begin(b, r) == [kind |-> "Begin", Body |-> b, Rescue |-> r]
HashPair(k, v) == [Key |-> k, Value |-> v]
Hash(p) == [kind |-> "Hash", Pairs |-> p]

(***************************************************************************)
(* Runtime values (package builtins).  GoNil is Go's nil interface value:  *)
(* "no value" and "no error".                                              *)
(***************************************************************************)
GoNil == [type |-> "nil"]
NewFixnum(v) == [type |-> "Fixnum", int |-> v]
NewString(s) == [type |-> "String", str |-> s]
TrueValue == [type |-> "True"]
FalseValue == [type |-> "False"]
NewSymbol(n, id) == [type |-> "Symbol", name |-> n, id |-> id]
NewUserDefinedClass(n, id) == [type |-> "Class", name |-> n, id |-> id]
NewModule(n, id) == [type |-> "Module", name |-> n, id |-> id]
BuiltinClass(n) == [type |-> "Class", name |-> n, id |-> 0]
BuiltinModule(n) == [type |-> "Module", name |-> n, id |-> 0]
MainObject == [type |-> "Object", name |-> "main", id |-> 0]
KernelModule == BuiltinModule("Kernel")
NewRubyMethod(n, a, b) == [type |-> "RubyMethod", name |-> n, args |-> a, body |-> b]
NewNativeMethod(n) == [type |-> "NativeMethod", name |-> n]
NewHash(p) == [type |-> "Hash", pairs |-> p]

\* faulty variant of NewParseError: the filename is not stored
NewParseErrorNoFilename(filename) == [type |-> "ParseError", Filename |-> ""]
\* lines 228-234
NewParseError(filename) == [type |-> "ParseError", Filename |-> filename]
\* The error values of package builtins.  Each carries the rendering of the
\* Call Stack at the moment it was created (vm.stack.String()); the receiver
\* and class strings they also carry are left out.
NewNameError(name, backtrace) == [type |-> "NameError", name |-> name, backtrace |-> backtrace]
NewNoMethodError(name, backtrace) ==
    [type |-> "NoMethodError", name |-> name, backtrace |-> backtrace]
NewLoadError(fileName, backtrace) ==
    [type |-> "LoadError", name |-> fileName, backtrace |-> backtrace]
\* the display string of an error value (Value.String())
ErrorString(e) == e.type

EmptyMap == [n \in {} |-> GoNil]

\* CallStack: most recent frame first
NewCallStack == << >>
Unshift(s, name, file) == <<[name |-> name, file |-> file]>> \o s
Shift(s) == Tail(s)

\* localVariableStack: topmost scope first
newLocalVariableStack == << >>
unshift(l) == <<EmptyMap>> \o l
shift(l) == Tail(l)
store(l, name, value) == [l EXCEPT ![1] = (name :> value) @@ @]
\* retrieve consults the topmost scope only; ok = FALSE is its error result
retrieve(l, name) ==
    IF Len(l) > 0 /\ name \in DOMAIN l[1]
    THEN [ok |-> TRUE, value |-> l[1][name]]
    ELSE [ok |-> FALSE, value |-> GoNil]

(***************************************************************************)
(* Inputs: source texts, named, with the statements the parser yields for  *)
(* them.  A text that is not in DOMAIN Program does not parse.             *)
(***************************************************************************)
\* shorthands for the statements the texts share
Undefined == BareReference("qux")
Require(name) == CallExpression(<< >>, "require", <<SimpleString(name)>>)
NilTargetCall == CallExpression(<<GlobalVariable("g")>>, "foo", << >>)

Program ==
    ( "lit" :> <<ConstantInt(1), SimpleString("s"), FileNameConstReference>> ) @@
    ( "sym" :> <<Symbol("a"), Symbol("b"), Symbol("a")>> ) @@
    ( "undef" :> <<Undefined, ConstantInt(1)>> ) @@
    ( "cleared" :> <<Undefined, Boolean(TRUE), Boolean(FALSE)>> ) @@
    ( "assign" :> <<ConstantInt(1), Assignment(BareReference("x"), ConstantInt(2))>> ) @@
    ( "assign_g" :> <<Assignment(GlobalVariable("Foo"), ConstantInt(5)),
                      GlobalVariable("Foo"), BareReference("Foo")>> ) @@
    ( "assign_i" :> <<Assignment(InstanceVariable("v"), Symbol("a")),
                      Assignment(InstanceVariable("w"), Undefined)>> ) @@
    ( "begin_ok" :> <<ConstantInt(1),
                      Begin(<<ConstantInt(7)>>,
                            <<Rescue(<<"NameError">>, <<ConstantInt(42)>>)>>)>> ) @@
    ( "begin_match" :> <<Begin(<<Undefined>>,
                               <<Rescue(<<"NameError">>, <<ConstantInt(42)>>)>>)>> ) @@
    ( "begin_nomatch" :> <<Begin(<<Undefined>>,
                                 <<Rescue(<<"Boom", "LoadError">>, <<ConstantInt(42)>>),
                                   Rescue(<<"NoMethodError">>, <<ConstantInt(3)>>)>>),
                           ConstantInt(9)>> ) @@
    ( "begin_retry" :> <<Begin(<<Undefined>>,
                               <<Rescue(<<"NameError", "NameError">>, <<NilTargetCall>>),
                                 Rescue(<<"NoMethodError">>, <<ConstantInt(3)>>),
                                 Rescue(<<"NameError">>, <<ConstantInt(42)>>),
                                 Rescue(<<"NameError">>, <<ConstantInt(43)>>)>>)>> ) @@
    ( "begin_later" :> <<Undefined,
                         Begin(<<NilTargetCall>>,
                               <<Rescue(<<"NoMethodError">>, <<Symbol("h")>>),
                                 Rescue(<<"NoMethodError">>, <<Symbol("never")>>)>>)>> ) @@
    ( "begin_lost" :> <<Begin(<<Undefined>>,
                              <<Rescue(<<"NameError">>, <<NilTargetCall>>)>>)>> ) @@
    ( "methods" :> <<FuncDecl("b", << >>,
                              <<Begin(<<BareReference("p")>>,
                                      <<Rescue(<<"NameError">>, <<ConstantInt(0)>>)>>)>>,
                              FALSE),
                     FuncDecl("a", <<"p">>,
                              <<CallExpression(<< >>, "b", << >>), BareReference("p")>>,
                              FALSE),
                     CallExpression(<< >>, "a", <<ConstantInt(1)>>)>> ) @@
    ( "shadow" :> <<FuncDecl("c", <<"p">>,
                             <<Assignment(BareReference("p"), ConstantInt(3)),
                               BareReference("p")>>, FALSE),
                    CallExpression(<< >>, "c", <<ConstantInt(1)>>),
                    BareReference("p")>> ) @@
    ( "calls" :> <<FuncDecl("f", << >>, <<ConstantInt(1)>>, FALSE),
                   CallExpression(<< >>, "f", << >>),
                   CallExpression(<< >>, "f", << >>),
                   Undefined>> ) @@
    ( "raising" :> <<FuncDecl("r", <<"p">>, <<Undefined>>, FALSE),
                     CallExpression(<< >>, "r", <<ConstantInt(1)>>),
                     ConstantInt(2)>> ) @@
    ( "badcalls" :> <<CallExpression(<<BareReference("main")>>, "to_s", << >>),
                      CallExpression(<< >>, "a", <<Symbol("c"), Undefined, Symbol("d")>>),
                      ConstantInt(2)>> ) @@
    ( "nilcall" :> <<NilTargetCall, ConstantInt(2)>> ) @@
    ( "badtarget" :> <<CallExpression(<<Undefined>>, "to_s", <<Symbol("c")>>)>> ) @@
    ( "recurse" :> <<FuncDecl("a", <<"p">>, <<CallExpression(<< >>, "a", <<BareReference("p")>>)>>,
                              FALSE),
                     CallExpression(<< >>, "a", <<ConstantInt(1)>>)>> ) @@
    ( "require" :> <<Require("lib1"), FileNameConstReference>> ) @@
    ( "require_bad" :> <<Require("bad"), FileNameConstReference>> ) @@
    ( "require_none" :> <<Require("missing_file")>> ) @@
    ( "require_locked" :> <<Require("locked"), ConstantInt(1)>> ) @@
    ( "require_gems" :> <<Require("rubygems"), Undefined>> ) @@
    ( "require_rescued" :> <<Begin(<<Require("bad")>>,
                                   <<Rescue(<<"ParseError">>, <<ConstantInt(1)>>)>>)>> ) @@
    ( "require_in_method" :> <<FuncDecl("load", <<"p">>, <<Require("lib1"), BareReference("p")>>,
                                        FALSE),
                               CallExpression(<< >>, "load", <<ConstantInt(1)>>)>> ) @@
    ( "require_int" :> <<CallExpression(<< >>, "require", <<ConstantInt(1)>>)>> ) @@
    ( "lib1" :> <<Assignment(BareReference("x"), FileNameConstReference),
                  Require("lib2"), Symbol("a")>> ) @@
    ( "lib2" :> <<FileNameConstReference, BareReference("p")>> ) @@
    ( "class" :> <<ClassDecl("Foo", <<FuncDecl("m", << >>, <<ConstantInt(1)>>, FALSE),
                                      BareReference("Foo")>>),
                   BareReference("Foo")>> ) @@
    ( "class_err" :> <<ConstantInt(1), ClassDecl("Foo", <<Undefined>>), ConstantInt(2)>> ) @@
    ( "module" :> <<ModuleDecl("Foo", <<FuncDecl("m", << >>, <<ConstantInt(1)>>, TRUE),
                                        FuncDecl("n", << >>, <<ConstantInt(2)>>, FALSE),
                                        Undefined>>),
                    CallExpression(<<BareReference("Foo")>>, "m", << >>)>> ) @@
    ( "if" :> <<IfBlock(BareReference("nil"), <<ConstantInt(1)>>, <<ConstantInt(2)>>),
                IfBlock(BareReference("x"), <<ConstantInt(1)>>, <<ConstantInt(2)>>),
                IfBlock(Boolean(FALSE), <<ConstantInt(1)>>, <<Undefined>>),
                IfBlock(Undefined, << >>, <<ConstantInt(2)>>)>> ) @@
    ( "if_sym" :> <<Undefined,
                    IfBlock(Symbol("c"), <<ConstantInt(1)>>, <<ConstantInt(2)>>)>> ) @@
    ( "hash" :> <<Hash(<<HashPair(Symbol("a"), ConstantInt(1)),
                         HashPair(Undefined, ConstantInt(2)),
                         HashPair(Symbol("b"), ConstantInt(3))>>),
                  ConstantInt(4)>> ) @@
    ( "hash_ok" :> <<Hash(<< >>),
                     Hash(<<HashPair(Symbol("a"), ConstantInt(1)),
                            HashPair(Symbol("a"), Undefined)>>)>> ) @@
    ( "foo" :> <<Assignment(BareReference("Foo"), ConstantInt(1)),
                 BareReference("Foo"),
                 FuncDecl("g", <<"Foo">>, <<BareReference("Foo")>>, FALSE),
                 CallExpression(<< >>, "g", <<ConstantInt(2)>>)>> ) @@
    ( "empty" :> << >> )

\* the texts the host runs; the other texts are read by require only
LibraryTexts == {"lib1", "lib2"}
HostInputs == (DOMAIN Program \ LibraryTexts) \cup {"garbage"}

Parse(input) ==
    IF input \in DOMAIN Program
    THEN [result |-> 0, Statements |-> Program[input]]
    ELSE [result |-> 1, Statements |-> << >>]

HostFilename == "script.rb"
LibDir == "lib"

(***************************************************************************)
(* State.                                                                  *)
(***************************************************************************)
VARIABLES
    currentFilename,     \* vm.currentFilename
    stack,               \* vm.stack, the Call Stack
    ObjectSpace,         \* vm.ObjectSpace
    CurrentGlobals,      \* vm.CurrentGlobals
    CurrentSymbols,      \* vm.CurrentSymbols
    CurrentClasses,      \* vm.CurrentClasses
    CurrentModules,      \* vm.CurrentModules
    localVariableStack,  \* vm.localVariableStack
    methods,             \* method tables of the values: <<owner, table, name>> -> method
    ivars,               \* instance attributes of the values: <<owner, name>> -> value
    nextId,              \* identity of the next allocated symbol, class or module
    goStack,             \* live Go activations, innermost last
    ret,                 \* (Value, error) returned by the activation that returned last
    status,              \* "ok", "panic" once the Go process has panicked, "exited"
    runs,                \* number of Run calls the host has made
    last                 \* the step taken last and what it observed

vars == <<currentFilename, stack, ObjectSpace, CurrentGlobals, CurrentSymbols,
          CurrentClasses, CurrentModules, localVariableStack, methods, ivars,
          nextId, goStack, ret, status, runs, last>>

registries == <<ObjectSpace, CurrentGlobals, CurrentSymbols, CurrentClasses,
                CurrentModules, methods, ivars, nextId>>

BuiltinClassNames ==
    {"BasicObject", "Object", "Class", "Module", "IO", "Array", "Hash", "True",
     "File", "False", "Nil", "String", "Fixnum", "Float", "Symbol"}
BuiltinModuleNames == {"Comparable", "Kernel", "Process"}

LoadPathArray == [type |-> "Array", members |-> <<NewString(LibDir)>>]

\* NewVM
Init ==
    /\ currentFilename = HostFilename
    /\ stack = NewCallStack
    /\ CurrentGlobals = ("LOAD_PATH" :> LoadPathArray) @@ (":" :> LoadPathArray)
    /\ ObjectSpace = ("ARGV" :> [type |-> "Array", members |-> << >>]) @@
                     ("main" :> MainObject)
    /\ CurrentSymbols = EmptyMap
    /\ CurrentClasses = [n \in BuiltinClassNames |-> BuiltinClass(n)]
    /\ CurrentModules = [n \in BuiltinModuleNames |-> BuiltinModule(n)]
    /\ localVariableStack = newLocalVariableStack
    /\ methods = (<<MainObject, "public", "to_s">> :> NewNativeMethod("to_s")) @@
                 (<<MainObject, "public", "require">> :> NewNativeMethod("require"))
    /\ ivars = EmptyMap
    /\ nextId = 1
    /\ goStack = << >>
    /\ ret = [value |-> GoNil, err |-> GoNil]
    /\ status = "ok"
    /\ runs = 0
    /\ last = [op |-> "NewVM"]

(***************************************************************************)
(* Activations.                                                            *)
(***************************************************************************)
top == goStack[Len(goStack)]
Front(s) == SubSeq(s, 1, Len(s) - 1)
SetTop(a) == [goStack EXCEPT ![Len(goStack)] = a]
Running == status = "ok" /\ Len(goStack) > 0

NoTmp == [none |-> TRUE]

\* a call of executeWithContext(context, statements...): lines 258-262
ExecActivation(context, statements) ==
    [fn |-> "executeWithContext", context |-> context, statements |-> statements,
     i |-> 1, returnValue |-> GoNil, returnErr |-> GoNil, deferred |-> 0,
     pc |-> "statement", tmp |-> NoTmp]

\* a call of vm.Run(input); callDepth and scopeDepth record the depths at entry
RunActivation(input, s, l) ==
    [fn |-> "Run", input |-> input, pc |-> "start",
     callDepth |-> Len(s), scopeDepth |-> Len(l)]

\* faulty variant of RunDeferredShift: the defer of line 250 left out
RunDeferredShiftMissing(s) == s
\* the deferred vm.stack.Shift() of Run (line 250)
RunDeferredShift(s) == Shift(s)

\* the host calls Run on the VM
CallRun(input) ==
    /\ status = "ok"
    /\ goStack = << >>
    /\ runs < MaxRuns
    /\ runs' = runs + 1
    /\ goStack' = <<RunActivation(input, stack, localVariableStack)>>
    /\ last' = [op |-> "CallRun", input |-> input]
    /\ UNCHANGED <<currentFilename, stack, localVariableStack, registries, ret, status>>

\* vm.Run up to the call of executeWithContext: lines 240-254
Run ==
    /\ Running
    /\ top.fn = "Run"
    /\ top.pc = "start"
    /\ LET parsed == Parse(top.input) IN
       IF parsed.result # 0
       THEN /\ goStack' = Front(goStack)
            /\ ret' = [value |-> GoNil, err |-> NewParseError(currentFilename)]
            /\ last' = [op |-> "RunParseError", callDepth |-> top.callDepth,
                        scopeDepth |-> top.scopeDepth]
            /\ UNCHANGED <<stack, localVariableStack>>
       ELSE /\ stack' = Unshift(stack, "main", currentFilename)
            /\ localVariableStack' = unshift(localVariableStack)
            /\ goStack' = Append(SetTop([top EXCEPT !.pc = "wait"]),
                                 ExecActivation(ObjectSpace["main"], parsed.Statements))
            /\ last' = [op |-> "Run"]
            /\ UNCHANGED ret
    /\ UNCHANGED <<currentFilename, registries, status, runs>>

\* vm.Run returning what executeWithContext returned; its two defers run
RunReturn ==
    /\ Running
    /\ top.fn = "Run"
    /\ top.pc = "wait"
    /\ stack' = RunDeferredShift(stack)
    /\ localVariableStack' = shift(localVariableStack)
    /\ goStack' = Front(goStack)
    /\ last' = [op |-> "RunReturn", callDepth |-> top.callDepth,
                scopeDepth |-> top.scopeDepth]
    /\ UNCHANGED <<currentFilename, registries, ret, status, runs>>


(***************************************************************************)
(* executeWithContext: the statement loop (lines 257-547).                 *)
(***************************************************************************)
InExec == Running /\ top.fn = "executeWithContext"
statement == top.statements[top.i]
AtStatement(kind) ==
    /\ InExec
    /\ top.pc = "statement"
    /\ top.i <= Len(top.statements)
    /\ statement.kind = kind
AtPc(pc) == InExec /\ top.pc = pc

\* the loop goes on to the next statement with these returnValue, returnErr
NextStatement(returnValue, returnErr) ==
    SetTop([top EXCEPT !.returnValue = returnValue, !.returnErr = returnErr,
                       !.i = @ + 1, !.pc = "statement", !.tmp = NoTmp])

\* the deferred vm.stack.Shift() calls of one executeWithContext call run when
\* that call returns (line 449: defer inside the loop)
ShiftDeferred(s, n) == SubSeq(s, n + 1, Len(s))

\* "return value, err" of the executeWithContext call on top
ReturnWith(value, err) ==
    /\ goStack' = Front(goStack)
    /\ ret' = [value |-> value, err |-> err]
    /\ stack' = ShiftDeferred(stack, top.deferred)

\* a statement that neither calls nor returns
Step(returnValue, returnErr) ==
    /\ goStack' = NextStatement(returnValue, returnErr)
    /\ UNCHANGED <<stack, ret>>

\* line 546: the loop is over
ExecReturn ==
    /\ AtPc("statement")
    /\ top.i > Len(top.statements)
    /\ ReturnWith(top.returnValue, top.returnErr)
    /\ last' = [op |-> "ExecReturn", statements |-> top.statements]
    /\ UNCHANGED <<currentFilename, localVariableStack, registries, status, runs>>

\* lines 356-357
EvalSimpleString ==
    /\ AtStatement("SimpleString")
    /\ Step(NewString(statement.StrValue), top.returnErr)
    /\ last' = [op |-> "SimpleString"]
    /\ UNCHANGED <<currentFilename, localVariableStack, registries, status, runs>>

\* lines 360-365: True.New and False.New return no error
EvalBoolean ==
    /\ AtStatement("Boolean")
    /\ Step(IF statement.BoolValue THEN TrueValue ELSE FalseValue, GoNil)
    /\ last' = [op |-> "Boolean"]
    /\ UNCHANGED <<currentFilename, localVariableStack, registries, status, runs>>

\* lines 366-367: a missing key of the Go map reads as nil
GlobalRead(globals, name) == IF name \in DOMAIN globals THEN globals[name] ELSE GoNil
EvalGlobalVariable ==
    /\ AtStatement("GlobalVariable")
    /\ Step(GlobalRead(CurrentGlobals, statement.Name), top.returnErr)
    /\ last' = [op |-> "GlobalVariable", name |-> statement.Name]
    /\ UNCHANGED <<currentFilename, localVariableStack, registries, status, runs>>

\* lines 368-369
EvalConstantInt ==
    /\ AtStatement("ConstantInt")
    /\ Step(NewFixnum(statement.IntValue), top.returnErr)
    /\ last' = [op |-> "ConstantInt"]
    /\ UNCHANGED <<currentFilename, localVariableStack, registries, status, runs>>

\* faulty variant of SymbolInterned: the registry is never found to hold the name
SymbolInternedNever(symbols, name) == FALSE
\* lines 374-375: is the symbol already interned?
SymbolInterned(symbols, name) == name \in DOMAIN symbols

\* lines 372-380
EvalSymbol ==
    /\ AtStatement("Symbol")
    /\ LET name == statement.Name IN
       IF ~SymbolInterned(CurrentSymbols, name)
       THEN /\ CurrentSymbols' = (name :> NewSymbol(name, nextId)) @@ CurrentSymbols
            /\ nextId' = nextId + 1
            /\ Step(NewSymbol(name, nextId), top.returnErr)
       ELSE /\ Step(CurrentSymbols[name], top.returnErr)
            /\ UNCHANGED <<CurrentSymbols, nextId>>
    /\ last' = [op |-> "Symbol", name |-> statement.Name]
    /\ UNCHANGED <<currentFilename, localVariableStack, ObjectSpace, CurrentGlobals,
                   CurrentClasses, CurrentModules, methods, ivars, status, runs>>

\* faulty variant of BareReferenceLookup: Classes consulted before Object Space
BareReferenceLookupClassesFirst(name, locals, objectSpace, globals, classes, modules) ==
    LET maybe == retrieve(locals, name) IN
    IF maybe.ok THEN [found |-> TRUE, value |-> maybe.value]
    ELSE IF name \in DOMAIN classes THEN [found |-> TRUE, value |-> classes[name]]
    ELSE IF name \in DOMAIN objectSpace THEN [found |-> TRUE, value |-> objectSpace[name]]
    ELSE IF name \in DOMAIN modules THEN [found |-> TRUE, value |-> modules[name]]
    ELSE [found |-> FALSE, value |-> GoNil]
\* lines 383-399: where a bare name is found
BareReferenceLookup(name, locals, objectSpace, globals, classes, modules) ==
    LET maybe == retrieve(locals, name) IN
    IF maybe.ok THEN [found |-> TRUE, value |-> maybe.value]
    ELSE IF name \in DOMAIN objectSpace THEN [found |-> TRUE, value |-> objectSpace[name]]
    ELSE IF name \in DOMAIN classes THEN [found |-> TRUE, value |-> classes[name]]
    ELSE IF name \in DOMAIN modules THEN [found |-> TRUE, value |-> modules[name]]
    ELSE [found |-> FALSE, value |-> GoNil]

\* lines 381-404
EvalBareReference ==
    /\ AtStatement("BareReference")
    /\ LET name == statement.Name
           r == BareReferenceLookup(name, localVariableStack, ObjectSpace,
                                    CurrentGlobals, CurrentClasses, CurrentModules)
       IN IF r.found
          THEN Step(r.value, top.returnErr)
          ELSE Step(GoNil, NewNameError(name, stack))
    /\ last' = [op |-> "BareReference", name |-> statement.Name]
    /\ UNCHANGED <<currentFilename, localVariableStack, registries, status, runs>>

\* lines 477-478
EvalFileNameConstReference ==
    /\ AtStatement("FileNameConstReference")
    /\ Step(NewString(currentFilename), top.returnErr)
    /\ last' = [op |-> "FileNameConstReference"]
    /\ UNCHANGED <<currentFilename, localVariableStack, registries, status, runs>>

\* a statement calls executeWithContext(context, statements...) and waits at pc
CallExec(pc, tmp, context, statements) ==
    /\ goStack' = Append(SetTop([top EXCEPT !.pc = pc, !.tmp = tmp]),
                         ExecActivation(context, statements))
    /\ UNCHANGED <<stack, ret>>

\* the Go process panics: evaluation stops for good
Panic ==
    /\ status' = "panic"
    /\ UNCHANGED <<goStack, stack, ret>>

\* lines 265-274: the structural truth value of a condition
IfTruthy(condition) ==
    IF condition.kind = "Boolean" THEN condition.BoolValue
    ELSE IF condition.kind = "BareReference" THEN condition.Name = "nil"
    ELSE TRUE

\* lines 264-280, up to the recursive call
EvalIfBlock ==
    /\ AtStatement("IfBlock")
    /\ CallExec("IfBlock.return", NoTmp, top.context,
                IF IfTruthy(statement.Condition) THEN statement.Body ELSE statement.Else)
    /\ last' = [op |-> "IfBlock", truthy |-> IfTruthy(statement.Condition)]
    /\ UNCHANGED <<currentFilename, localVariableStack, registries, status, runs>>

\* lines 277, 279: returnValue, returnErr = the branch's result
IfBlockReturn ==
    /\ AtPc("IfBlock.return")
    /\ Step(ret.value, ret.err)
    /\ last' = [op |-> "IfBlockReturn"]
    /\ UNCHANGED <<currentFilename, localVariableStack, registries, status, runs>>

\* lines 296-301
EvalModuleDecl ==
    /\ AtStatement("ModuleDecl")
    /\ LET theModule == NewModule(statement.Name, nextId) IN
       /\ nextId' = nextId + 1
       /\ CurrentModules' = (statement.Name :> theModule) @@ CurrentModules
       /\ CallExec("ModuleDecl.return", [theModule |-> theModule], theModule,
                   statement.Body)
       /\ last' = [op |-> "ModuleDecl", name |-> statement.Name,
                   before |-> IF statement.Name \in DOMAIN CurrentModules
                              THEN CurrentModules[statement.Name] ELSE GoNil]
    /\ UNCHANGED <<currentFilename, localVariableStack, ObjectSpace, CurrentGlobals,
                   CurrentSymbols, CurrentClasses, methods, ivars, status, runs>>

\* lines 302-306
ModuleDeclReturn ==
    /\ AtPc("ModuleDecl.return")
    /\ Step(top.tmp.theModule, IF ret.err # GoNil THEN ret.err ELSE top.returnErr)
    /\ last' = [op |-> "ModuleDeclReturn"]
    /\ UNCHANGED <<currentFilename, localVariableStack, registries, status, runs>>

\* lines 308-313
EvalClassDecl ==
    /\ AtStatement("ClassDecl")
    /\ LET theClass == NewUserDefinedClass(statement.Name, nextId) IN
       /\ nextId' = nextId + 1
       /\ CurrentClasses' = (statement.Name :> theClass) @@ CurrentClasses
       /\ CallExec("ClassDecl.return", [theClass |-> theClass], theClass,
                   statement.Body)
       /\ last' = [op |-> "ClassDecl", name |-> statement.Name,
                   before |-> IF statement.Name \in DOMAIN CurrentClasses
                              THEN CurrentClasses[statement.Name] ELSE GoNil]
    /\ UNCHANGED <<currentFilename, localVariableStack, ObjectSpace, CurrentGlobals,
                   CurrentSymbols, CurrentModules, methods, ivars, status, runs>>

\* lines 314-316: returnValue is not assigned
ClassDeclReturn ==
    /\ AtPc("ClassDecl.return")
    /\ Step(top.returnValue, IF ret.err # GoNil THEN ret.err ELSE top.returnErr)
    /\ last' = [op |-> "ClassDeclReturn"]
    /\ UNCHANGED <<currentFilename, localVariableStack, registries, status, runs>>

\* lines 338-354: the method table a declared method goes to; "panic" for a
\* context that is neither main, a Class nor a Module
FuncDeclOwner(context, selfTarget) ==
    IF context = ObjectSpace["main"] THEN <<CurrentModules["Kernel"], "private">>
    ELSE IF context.type = "Class" THEN <<context, "instance">>
    ELSE IF context.type = "Module"
         THEN IF selfTarget THEN <<context, "public">> ELSE <<context, "instance">>
    ELSE <<context, "panic">>

\* lines 318-354
EvalFuncDecl ==
    /\ AtStatement("FuncDecl")
    /\ LET method == NewRubyMethod(statement.Name, statement.Args, statement.Body)
           owner == FuncDeclOwner(top.context, statement.SelfTarget)
       IN IF owner[2] = "panic"
          THEN Panic /\ UNCHANGED methods
          ELSE /\ methods' = (<<owner[1], owner[2], statement.Name>> :> method) @@ methods
               /\ Step(method, top.returnErr)
               /\ UNCHANGED status
    /\ last' = [op |-> "FuncDecl", name |-> statement.Name]
    /\ UNCHANGED <<currentFilename, localVariableStack, ObjectSpace, CurrentGlobals,
                   CurrentSymbols, CurrentClasses, CurrentModules, ivars, nextId, runs>>

\* line 458, the recursive call
EvalAssignment ==
    /\ AtStatement("Assignment")
    /\ CallExec("Assignment.return", NoTmp, top.context, <<statement.RHS>>)
    /\ last' = [op |-> "Assignment"]
    /\ UNCHANGED <<currentFilename, localVariableStack, registries, status, runs>>

\* line 458: "returnValue, err := ..." declares a new returnValue in the case
\* clause, so the returnValue of the function keeps its value
AssignmentResult(returnValue, rhs) == returnValue

\* faulty variant of AssignmentTarget: a global-variable name is bound in
\* Object Space
AssignmentTargetObjectSpace(lhs) ==
    IF lhs.kind \in {"BareReference", "GlobalVariable"} THEN "ObjectSpace"
    ELSE IF lhs.kind = "InstanceVariable" THEN "ivars"
    ELSE "panic"
\* lines 463-475: the store the kind of the left-hand side selects
AssignmentTarget(lhs) ==
    IF lhs.kind = "BareReference" THEN "ObjectSpace"
    ELSE IF lhs.kind = "GlobalVariable" THEN "CurrentGlobals"
    ELSE IF lhs.kind = "InstanceVariable" THEN "ivars"
    ELSE "panic"

\* faulty variant of AssignmentLocals: a bare-name assignment also stores the
\* value in the topmost scope
AssignmentLocalsStored(l, lhs, value) ==
    IF lhs.kind = "BareReference" /\ Len(l) > 0 THEN store(l, lhs.Name, value) ELSE l
\* lines 463-475: no case of the switch writes vm.localVariableStack
AssignmentLocals(l, lhs, value) == l

\* lines 459-475
AssignmentReturn ==
    /\ AtPc("Assignment.return")
    /\ LET lhs == statement.LHS
           target == AssignmentTarget(lhs)
       IN
       IF ret.err # GoNil
       THEN /\ ReturnWith(GoNil, ret.err)
            /\ UNCHANGED <<ObjectSpace, CurrentGlobals, ivars, status, localVariableStack>>
       ELSE IF target = "panic"
       THEN Panic /\ UNCHANGED <<ObjectSpace, CurrentGlobals, ivars, localVariableStack>>
       ELSE /\ localVariableStack' = AssignmentLocals(localVariableStack, lhs, ret.value)
            /\ ObjectSpace' = IF target = "ObjectSpace"
                              THEN (lhs.Name :> ret.value) @@ ObjectSpace
                              ELSE ObjectSpace
            /\ CurrentGlobals' = IF target = "CurrentGlobals"
                                 THEN (lhs.Name :> ret.value) @@ CurrentGlobals
                                 ELSE CurrentGlobals
            /\ ivars' = IF target = "ivars"
                        THEN (<<top.context, lhs.Name>> :> ret.value) @@ ivars
                        ELSE ivars
            /\ Step(AssignmentResult(top.returnValue, ret.value), top.returnErr)
            /\ UNCHANGED status
    /\ last' = [op |-> "AssignmentReturn", rhs |-> ret.value, err |-> ret.err]
    /\ UNCHANGED <<currentFilename, CurrentSymbols, CurrentClasses,
                   CurrentModules, methods, nextId, runs>>

\* faulty variant of RescueMatches: every declared name matches
RescueMatchesAny(name, rubyErr) == TRUE
\* line 493: does a declared exception-class name match the raised error?
RescueMatches(name, rubyErr) == name = ErrorString(rubyErr)

\* the places <<clause, name>> of the rescue clauses, in source order
RescuePlaces(rescue) ==
    UNION {{<<r, c>> : c \in 1..Len(rescue[r].Classes)} : r \in 1..Len(rescue)}
PlaceBefore(p, q) == p[1] < q[1] \/ (p[1] = q[1] /\ p[2] <= q[2])

\* lines 486-493: the loops go on from place `from` to the next matching name
RescueSearch(rescue, rubyErr, from) ==
    LET hits == {p \in RescuePlaces(rescue) :
                    /\ PlaceBefore(from, p)
                    /\ RescueMatches(rescue[p[1]].Classes[p[2]], rubyErr)}
    IN IF hits = {} THEN [found |-> FALSE, place |-> from]
       ELSE [found |-> TRUE,
             place |-> CHOOSE p \in hits : \A q \in hits : PlaceBefore(p, q)]

\* line 481, the recursive call
EvalBegin ==
    /\ AtStatement("Begin")
    /\ CallExec("Begin.body", NoTmp, top.context, statement.Body)
    /\ last' = [op |-> "Begin"]
    /\ UNCHANGED <<currentFilename, localVariableStack, registries, status, runs>>

\* lines 481-485 and, when the body raised nothing, 504-506; the body's value
\* is discarded ("_, err :=").  A *ParseError is no Value: err.(Value) panics.
BeginBodyReturn ==
    /\ AtPc("Begin.body")
    /\ IF ret.err = GoNil
       THEN Step(top.returnValue, top.returnErr) /\ UNCHANGED status
       ELSE IF ret.err.type = "ParseError"
       THEN Panic
       ELSE /\ goStack' = SetTop([top EXCEPT !.pc = "Begin.rescue",
                                   !.tmp = [rubyErr |-> ret.err, err |-> ret.err,
                                            from |-> <<1, 1>>, tried |-> 0]])
            /\ UNCHANGED <<stack, ret, status>>
    /\ last' = [op |-> "BeginBodyReturn", value |-> ret.value, err |-> ret.err]
    /\ UNCHANGED <<currentFilename, localVariableStack, registries, runs>>

\* faulty variant of MatchedError: the names are compared with the latest error
MatchedErrorLatest(tmp) == tmp.err
\* lines 485, 493: rubyErr is bound once, before the loops, and the names are
\* compared with it
MatchedError(tmp) == tmp.rubyErr

\* lines 486-494 and, when no further name matches, 504-506
BeginRescue ==
    /\ AtPc("Begin.rescue")
    /\ LET hit == RescueSearch(statement.Rescue, MatchedError(top.tmp), top.tmp.from) IN
       IF hit.found
       THEN /\ CallExec("Begin.recover",
                        [top.tmp EXCEPT !.from = hit.place, !.tried = @ + 1],
                        top.context, statement.Rescue[hit.place[1]].Body)
            /\ last' = [op |-> "BeginRescueMatch", place |-> hit.place]
       ELSE /\ Step(top.returnValue, top.tmp.err)
            /\ last' = [op |-> "BeginRescueEnd", rubyErr |-> top.tmp.rubyErr,
                        tried |-> top.tmp.tried]
    /\ UNCHANGED <<currentFilename, localVariableStack, registries, status, runs>>

\* faulty variant of RecoveryHandled: a recovery body never ends the search
RecoveryHandledNever(err) == FALSE
\* lines 495-498: the recovery body raised nothing, matchingRescue is set and
\* both loops are left
RecoveryHandled(err) == err = GoNil

\* lines 494-498 and, when the recovery body raised nothing, 487-488, 504-506
BeginRecoverReturn ==
    /\ AtPc("Begin.recover")
    /\ IF RecoveryHandled(ret.err)
       THEN Step(top.returnValue, top.returnErr)
       ELSE /\ goStack' = SetTop([top EXCEPT !.pc = "Begin.rescue", !.tmp.err = ret.err,
                                   !.tmp.from = <<@[1], @[2] + 1>>])
            /\ UNCHANGED <<stack, ret>>
    /\ last' = [op |-> "BeginRecoverReturn", value |-> ret.value, err |-> ret.err]
    /\ UNCHANGED <<currentFilename, localVariableStack, registries, status, runs>>

\* lines 521-525: the first key, or an empty literal (line 540)
EvalHash ==
    /\ AtStatement("Hash")
    /\ IF statement.Pairs = << >>
       THEN Step(NewHash(<< >>), top.returnErr)
       ELSE CallExec("Hash.key", [pairs |-> << >>], top.context,
                     <<statement.Pairs[1].Key>>)
    /\ last' = [op |-> "Hash"]
    /\ UNCHANGED <<currentFilename, localVariableStack, registries, status, runs>>

\* lines 525-531: an error breaks out of the pair loop only (line 528)
HashKeyReturn ==
    /\ AtPc("Hash.key")
    /\ IF ret.err # GoNil
       THEN Step(NewHash(top.tmp.pairs), ret.err)
       ELSE CallExec("Hash.value", [pairs |-> top.tmp.pairs, key |-> ret.value],
                     top.context,
                     <<statement.Pairs[Len(top.tmp.pairs) + 1].Value>>)
    /\ last' = [op |-> "HashKeyReturn", err |-> ret.err]
    /\ UNCHANGED <<currentFilename, localVariableStack, registries, status, runs>>

\* lines 531-540
HashValueReturn ==
    /\ AtPc("Hash.value")
    /\ LET pairs == Append(top.tmp.pairs, <<top.tmp.key, ret.value>>) IN
       IF ret.err # GoNil
       THEN Step(NewHash(top.tmp.pairs), ret.err)
       ELSE IF Len(pairs) < Len(statement.Pairs)
       THEN CallExec("Hash.key", [pairs |-> pairs], top.context,
                     <<statement.Pairs[Len(pairs) + 1].Key>>)
       ELSE Step(NewHash(pairs), top.returnErr)
    /\ last' = [op |-> "HashValueReturn", err |-> ret.err]
    /\ UNCHANGED <<currentFilename, localVariableStack, registries, status, runs>>

(***************************************************************************)
(* Call expressions (lines 405-454), method bodies (lines 326-335) and the *)
(* native methods of main (lines 67-105).                                  *)
(***************************************************************************)
\* Value.Method and, for a call without explicit target, Value.PrivateMethod:
\* the methods of the value itself, then the private methods of the Kernel
\* module every value includes
LookupMethod(target, name, usePrivateMethod) ==
    IF <<target, "public", name>> \in DOMAIN methods
    THEN [found |-> TRUE, method |-> methods[<<target, "public", name>>]]
    ELSE IF usePrivateMethod /\ <<KernelModule, "private", name>> \in DOMAIN methods
    THEN [found |-> TRUE, method |-> methods[<<KernelModule, "private", name>>]]
    ELSE [found |-> FALSE, method |-> GoNil]

\* lines 424-436: the nil check and the resolution, for a target in hand
CallResolve(target, usePrivateMethod) ==
    LET m == LookupMethod(target, statement.Func, usePrivateMethod) IN
    IF target = GoNil \/ ~m.found
    THEN ReturnWith(GoNil, NewNoMethodError(statement.Func, stack))
    ELSE /\ goStack' = SetTop([top EXCEPT !.pc = "Call.args",
                                !.tmp = [target |-> target, method |-> m.method,
                                         args |-> << >>, callDepth |-> Len(stack)]])
         /\ UNCHANGED <<stack, ret>>

\* lines 405-436 for a call without target; lines 414-415 for one with
EvalCallExpression ==
    /\ AtStatement("CallExpression")
    /\ IF statement.Target # << >>
       THEN CallExec("Call.target", NoTmp, top.context, statement.Target)
       ELSE CallResolve(top.context, TRUE)
    /\ last' = [op |-> "CallExpression", hasTarget |-> statement.Target # << >>]
    /\ UNCHANGED <<currentFilename, localVariableStack, registries, status, runs>>

\* lines 415-436
CallTargetReturn ==
    /\ AtPc("Call.target")
    /\ IF ret.err # GoNil
       THEN ReturnWith(GoNil, ret.err)
       ELSE CallResolve(ret.value, FALSE)
    /\ last' = [op |-> "CallTargetReturn", err |-> ret.err]
    /\ UNCHANGED <<currentFilename, localVariableStack, registries, status, runs>>

\* lines 439-440
CallEvalArg ==
    /\ AtPc("Call.args")
    /\ Len(top.tmp.args) < Len(statement.Args)
    /\ CallExec("Call.arg", top.tmp, top.context,
                <<statement.Args[Len(top.tmp.args) + 1]>>)
    /\ last' = [op |-> "CallEvalArg", k |-> Len(top.tmp.args) + 1]
    /\ UNCHANGED <<currentFilename, localVariableStack, registries, status, runs>>

\* lines 441-445
CallArgReturn ==
    /\ AtPc("Call.arg")
    /\ IF ret.err # GoNil
       THEN ReturnWith(GoNil, ret.err)
       ELSE /\ goStack' = SetTop([top EXCEPT !.pc = "Call.args",
                                   !.tmp.args = Append(@, ret.value)])
            /\ UNCHANGED <<stack, ret>>
    /\ last' = [op |-> "CallArgReturn", err |-> ret.err]
    /\ UNCHANGED <<currentFilename, localVariableStack, registries, status, runs>>

\* faulty variant of ArgsEvaluated: the method may be executed before the
\* argument loop is over
ArgsEvaluatedEarly == AtPc("Call.args")
\* lines 439-446: the argument loop is over
ArgsEvaluated == AtPc("Call.args") /\ Len(top.tmp.args) = Len(statement.Args)

\* RubyMethod.Execute binds the argument values to the formal parameters
BindArgs(formals, args) ==
    [k \in 1..Len(formals) |->
        [Name |-> formals[k], Value |-> IF k <= Len(args) THEN args[k] ELSE GoNil]]

RECURSIVE StoreArgs(_, _)
StoreArgs(l, args) ==
    IF args = << >> THEN l
    ELSE StoreArgs(store(l, args[1].Name, args[1].Value), Tail(args))

\* faulty variant of MethodBodyScope: the new scope starts as a copy of the caller's
MethodBodyScopeInherited(l, args) == StoreArgs(<<l[1]>> \o l, args)
\* lines 327-332: the scope a method body runs in
MethodBodyScope(l, args) == StoreArgs(unshift(l), args)

\* lines 448-451 with the method body closure, lines 326-334
CallExecuteRubyMethod ==
    /\ ArgsEvaluated
    /\ top.tmp.method.type = "RubyMethod"
    /\ Len(goStack) + 2 <= MaxDepth
    /\ LET method == top.tmp.method IN
       /\ stack' = Unshift(stack, method.name, currentFilename)
       /\ localVariableStack' =
              MethodBodyScope(localVariableStack, BindArgs(method.args, top.tmp.args))
       /\ goStack' = SetTop([top EXCEPT !.pc = "Call.return", !.deferred = @ + 1])
                     \o <<[fn |-> "RubyMethod", method |-> method, pc |-> "wait",
                           args |-> BindArgs(method.args, top.tmp.args)],
                          ExecActivation(top.tmp.target, method.body)>>
       /\ last' = [op |-> "CallExecuteRubyMethod", name |-> method.name]
    /\ UNCHANGED <<currentFilename, registries, ret, status, runs>>

\* lines 328, 334: the method body returned; the deferred shift runs
RubyMethodReturn ==
    /\ Running
    /\ top.fn = "RubyMethod"
    /\ localVariableStack' = shift(localVariableStack)
    /\ goStack' = Front(goStack)
    /\ last' = [op |-> "RubyMethodReturn", name |-> top.method.name]
    /\ UNCHANGED <<currentFilename, stack, registries, ret, status, runs>>

\* lines 448-454 with the native method to_s of main, lines 67-69
CallExecuteToS ==
    /\ ArgsEvaluated
    /\ top.tmp.method = NewNativeMethod("to_s")
    /\ stack' = Unshift(stack, "to_s", currentFilename)
    /\ goStack' = SetTop([top EXCEPT !.returnValue = NewString("main"),
                                     !.returnErr = GoNil, !.deferred = @ + 1,
                                     !.i = @ + 1, !.pc = "statement", !.tmp = NoTmp])
    /\ last' = [op |-> "CallReturn", callDepth |-> top.tmp.callDepth, err |-> GoNil]
    /\ UNCHANGED <<currentFilename, localVariableStack, registries, ret, status, runs>>

\* lines 451-454: the method returned
CallReturn ==
    /\ AtPc("Call.return")
    /\ IF ret.err # GoNil
       THEN ReturnWith(ret.value, ret.err)
       ELSE Step(ret.value, ret.err)
    /\ last' = [op |-> "CallReturn", callDepth |-> top.tmp.callDepth, err |-> ret.err]
    /\ UNCHANGED <<currentFilename, localVariableStack, registries, status, runs>>

(***************************************************************************)
(* require (lines 70-105).  The files below the load path, by requested    *)
(* name: the name os.Open gives the file, whether ReadAll succeeds, and    *)
(* the source text read.                                                   *)
(***************************************************************************)
FileSystem ==
    ( <<LibDir, "lib1">> :> [name |-> "lib/lib1.rb", readable |-> TRUE, contents |-> "lib1"] ) @@
    ( <<LibDir, "lib2">> :> [name |-> "lib/lib2.rb", readable |-> TRUE, contents |-> "lib2"] ) @@
    ( <<LibDir, "bad">> :> [name |-> "lib/bad.rb", readable |-> TRUE, contents |-> "garbage"] ) @@
    ( <<LibDir, "locked">> :> [name |-> "lib/locked.rb", readable |-> FALSE, contents |-> ""] ) @@
    ( <<"vendor", "lib1">> :> [name |-> "vendor/lib1.rb", readable |-> TRUE, contents |-> "lit"] ) @@
    ( <<"vendor", "locked">> :> [name |-> "vendor/locked.rb", readable |-> TRUE,
                                 contents |-> "empty"] ) @@
    ( <<"vendor", "only">> :> [name |-> "vendor/only.rb", readable |-> TRUE, contents |-> "sym"] )

\* faulty variant of FirstReadable: a file that opens is taken whether or not
\* ReadAll succeeds
RECURSIVE FirstReadableUnread(_, _)
FirstReadableUnread(paths, fileName) ==
    IF paths = << >> THEN [found |-> FALSE]
    ELSE LET fullPath == <<paths[1].str, fileName>> IN
         IF fullPath \in DOMAIN FileSystem
         THEN [found |-> TRUE, file |-> FileSystem[fullPath]]
         ELSE FirstReadableUnread(Tail(paths), fileName)
\* lines 77-87: the first load-path entry with a file that opens and reads
RECURSIVE FirstReadable(_, _)
FirstReadable(paths, fileName) ==
    IF paths = << >> THEN [found |-> FALSE]
    ELSE LET fullPath == <<paths[1].str, fileName>> IN
         IF fullPath \in DOMAIN FileSystem /\ FileSystem[fullPath].readable
         THEN [found |-> TRUE, file |-> FileSystem[fullPath]]
         ELSE FirstReadable(Tail(paths), fileName)

\* lines 448-451 with the native method require of main, lines 70-105, up to
\* the call of Run.  args[0].(*StringValue) panics without a string argument.
CallExecuteRequire ==
    /\ ArgsEvaluated
    /\ top.tmp.method = NewNativeMethod("require")
    /\ LET args == top.tmp.args
           pushed == Unshift(stack, "require", currentFilename)
           called == [top EXCEPT !.deferred = @ + 1]
       IN IF args = << >> \/ args[1].type # "String"
          THEN Panic /\ UNCHANGED currentFilename
                     /\ last' = [op |-> "RequirePanic"]
          ELSE LET fileName == args[1].str
                   hit == FirstReadable(LoadPathArray.members, fileName)
               IN IF fileName = "rubygems"
                  THEN /\ stack' = pushed
                       /\ goStack' = SetTop([called EXCEPT
                                        !.returnValue = FalseValue, !.returnErr = GoNil,
                                        !.i = @ + 1, !.pc = "statement", !.tmp = NoTmp])
                       /\ last' = [op |-> "CallReturn",
                                   callDepth |-> top.tmp.callDepth, err |-> GoNil]
                       /\ UNCHANGED <<currentFilename, ret, status>>
                  ELSE IF hit.found
                  THEN /\ Len(goStack) + 2 <= MaxDepth
                       /\ stack' = pushed
                       /\ currentFilename' = hit.file.name
                       /\ goStack' = SetTop([called EXCEPT !.pc = "Call.return"])
                                     \o <<[fn |-> "require", pc |-> "wait",
                                           originalName |-> currentFilename],
                                          RunActivation(hit.file.contents, pushed,
                                                        localVariableStack)>>
                       /\ last' = [op |-> "Require", fileName |-> fileName]
                       /\ UNCHANGED <<ret, status>>
                  ELSE /\ goStack' = Front(goStack)
                       /\ ret' = [value |-> GoNil,
                                  err |-> NewLoadError(fileName, pushed)]
                       /\ stack' = ShiftDeferred(pushed, called.deferred)
                       /\ last' = [op |-> "RequireLoadError", fileName |-> fileName]
                       /\ UNCHANGED <<currentFilename, status>>
    /\ UNCHANGED <<localVariableStack, registries, runs>>

\* faulty variant of RequireDeferredRestore: the deferred function left out
RequireDeferredRestoreMissing(originalName, current) == current
\* lines 88-91: the deferred function sets vm.currentFilename to originalName
RequireDeferredRestore(originalName, current) == originalName

\* lines 89-99: Run returned; the deferred restore of the filename runs
RequireReturn ==
    /\ Running
    /\ top.fn = "require"
    /\ currentFilename' = RequireDeferredRestore(top.originalName, currentFilename)
    /\ ret' = IF ret.err # GoNil THEN [value |-> GoNil, err |-> ret.err]
              ELSE [value |-> TrueValue, err |-> GoNil]
    /\ goStack' = Front(goStack)
    /\ last' = [op |-> "RequireReturn"]
    /\ UNCHANGED <<stack, localVariableStack, registries, status, runs>>

(***************************************************************************)
(* The host (main.go): what the process does with the error Run returned.  *)
(***************************************************************************)
\* lines 62-92 of main: os.Exit(1) for a *ParseError, a plain return for nil,
\* panic(err.Error()) for any other error; a Go process that panics exits
\* with status 2
ExitStatus(err) ==
    IF err = GoNil THEN 0
    ELSE IF err.type = "ParseError" THEN 1
    ELSE 2

\* main after Run has returned: lines 60-92
MainExit ==
    /\ status = "ok"
    /\ goStack = << >>
    /\ runs > 0
    /\ status' = "exited"
    /\ last' = [op |-> "MainExit", err |-> ret.err, code |-> ExitStatus(ret.err)]
    /\ UNCHANGED <<currentFilename, stack, localVariableStack, registries, goStack,
                   ret, runs>>

Next ==
    \/ \E input \in HostInputs : CallRun(input)
    \/ MainExit
    \/ Run
    \/ RunReturn
    \/ ExecReturn
    \/ EvalSimpleString
    \/ EvalBoolean
    \/ EvalGlobalVariable
    \/ EvalConstantInt
    \/ EvalSymbol
    \/ EvalBareReference
    \/ EvalFileNameConstReference
    \/ EvalIfBlock
    \/ IfBlockReturn
    \/ EvalModuleDecl
    \/ ModuleDeclReturn
    \/ EvalClassDecl
    \/ ClassDeclReturn
    \/ EvalFuncDecl
    \/ EvalAssignment
    \/ AssignmentReturn
    \/ EvalBegin
    \/ BeginBodyReturn
    \/ BeginRescue
    \/ BeginRecoverReturn
    \/ EvalHash
    \/ HashKeyReturn
    \/ HashValueReturn
    \/ EvalCallExpression
    \/ CallTargetReturn
    \/ CallEvalArg
    \/ CallArgReturn
    \/ CallExecuteRubyMethod
    \/ RubyMethodReturn
    \/ CallExecuteToS
    \/ CallReturn
    \/ CallExecuteRequire
    \/ RequireReturn

Spec == Init /\ [][Next]_vars


(***************************************************************************)
(* Properties.  `last` names the step taken last; after a step of the      *)
(* statement loop that neither calls nor returns, `top` is the             *)
(* executeWithContext call that took it and top.returnValue, top.returnErr *)
(* are what the statement left.                                            *)
(***************************************************************************)

\* C1: when a call of Run returns (a value, a Parse error or an evaluation
\* error; called by the host or by require, below any depth of method calls),
\* the depths of the Call Stack and of the Local Variable Stack equal the
\* depths they had when that Run was entered.
C1_StackBalance ==
    last.op \in {"RunReturn", "RunParseError"} =>
        /\ Len(stack) = last.callDepth
        /\ Len(localVariableStack) = last.scopeDepth

\* a Run started by require, below a method call, returns an error
C1_Witness ==
    /\ last.op = "RunReturn"
    /\ ret.err # GoNil
    /\ \E k \in 1..Len(goStack) : goStack[k].fn = "RubyMethod"
    /\ top.fn = "require"

\* C2: once a statement of a sequence has produced an error, no later
\* statement of that sequence is evaluated, and the error of the sequence is
\* never overwritten or cleared by a later sibling statement.
C2_NoLaterStatement ==
    (InExec /\ top.pc = "statement" /\ top.returnErr # GoNil) =>
        top.i > Len(top.statements)
C2_ErrorKept ==
    \A k \in 1..Len(goStack) :
        (/\ goStack[k].fn = "executeWithContext"
         /\ goStack[k].returnErr # GoNil
         /\ k <= Len(goStack'))
        => goStack'[k].returnErr = goStack[k].returnErr
C2_ErrorPropagation == []C2_NoLaterStatement /\ [][C2_ErrorKept]_vars

\* C3: the value of a Begin/Rescue construct is the value of its body when
\* the body raises nothing, and the value of the recovery body when a
\* matching rescue clause ran its recovery body without error.
C3_BeginValue ==
    (last.op \in {"BeginBodyReturn", "BeginRecoverReturn"} /\ last.err = GoNil) =>
        top.returnValue = last.value

\* the Begin statement the loop has just left
BeginLeft == top.statements[top.i - 1]
NoNameMatches(rescue, rubyErr) ==
    \A r \in 1..Len(rescue) : \A c \in 1..Len(rescue[r].Classes) :
        rescue[r].Classes[c] # ErrorString(rubyErr)

\* C4: when the body of a Begin raises and no declared exception-class name
\* equals the display string of the error, no recovery body is evaluated and
\* the error of the construct is the original error; a recovery body is
\* evaluated only for a name that equals the display string.
C4_UnmatchedRescue ==
    /\ (last.op = "BeginRescueEnd" /\ NoNameMatches(BeginLeft.Rescue, last.rubyErr)) =>
           /\ last.tried = 0
           /\ top.returnErr = last.rubyErr
    /\ last.op = "BeginRescueMatch" =>
           LET begin == goStack[Len(goStack) - 1] IN
           begin.statements[begin.i].Rescue[last.place[1]].Classes[last.place[2]]
               = ErrorString(begin.tmp.rubyErr)

C4_Witness ==
    /\ last.op = "BeginRescueEnd"
    /\ Len(BeginLeft.Rescue) > 1
    /\ NoNameMatches(BeginLeft.Rescue, last.rubyErr)
    /\ top.returnErr = last.rubyErr


\* the activations that pushed a scope: method bodies and runs
MethodActivations == {k \in 1..Len(goStack) : goStack[k].fn = "RubyMethod"}
ScopeActivations == {k \in 1..Len(goStack) : goStack[k].fn \in {"RubyMethod", "Run"}}
Innermost == CHOOSE k \in ScopeActivations : \A j \in ScopeActivations : j <= k
\* the evaluation is inside a method body (and not in a file the body required)
InMethodBody == ScopeActivations # {} /\ goStack[Innermost].fn = "RubyMethod"
InnermostMethod == goStack[Innermost]
Formals(m) == {m.method.args[k] : k \in 1..Len(m.method.args)}
\* the argument value bound to formal parameter n of method activation m
BoundValue(m, n) ==
    LET k == CHOOSE k \in 1..Len(m.args) :
                 m.args[k].Name = n /\ \A j \in 1..Len(m.args) : m.args[j].Name = n => j <= k
    IN m.args[k].Value
InRegistries(n) ==
    n \in DOMAIN ObjectSpace \cup DOMAIN CurrentClasses \cup DOMAIN CurrentModules
\* a method body that an enclosing method body A has n as formal parameter of
EnclosingMethodBinds(n) ==
    \E k \in MethodActivations :
        /\ k < Innermost
        /\ n \in Formals(goStack[k])

\* C5: a name that is only a formal parameter of method A (absent from Object
\* Space, Classes and Modules) reads as a Name error inside the body of
\* another method B that A's body invoked; once B has returned and A's body
\* goes on, the name reads as A's argument value again.
C5_ScopeIsolation ==
    (/\ last.op = "BareReference"
     /\ InMethodBody
     /\ ~InRegistries(last.name)) =>
        /\ (last.name \notin Formals(InnermostMethod) /\ EnclosingMethodBinds(last.name)) =>
               /\ top.returnValue = GoNil
               /\ top.returnErr = NewNameError(last.name, stack)
        /\ last.name \in Formals(InnermostMethod) =>
               top.returnValue = BoundValue(InnermostMethod, last.name)

\* B, invoked from A's body, has just read A's formal parameter
C5_Witness ==
    /\ last.op = "BareReference"
    /\ InMethodBody
    /\ Cardinality(ScopeActivations) = 3
    /\ ~InRegistries(last.name)
    /\ last.name \notin Formals(InnermostMethod)
    /\ EnclosingMethodBinds(last.name)
    /\ top.returnErr = NewNameError(last.name, stack)

\* A's body reads its formal parameter after the call of B before it returned
C5_WitnessAfterReturn ==
    /\ last.op = "BareReference"
    /\ InMethodBody
    /\ Cardinality(MethodActivations) = 1
    /\ ~InRegistries(last.name)
    /\ last.name \in Formals(InnermostMethod)
    /\ top.i > 2
    /\ top.statements[top.i - 2].kind = "CallExpression"
    /\ top.statements[top.i - 2].Func = "b"
    /\ top.returnErr = GoNil
    /\ top.returnValue = NewFixnum(1)

\* C6: every evaluation of a symbol literal returns the value registered in
\* Symbols under its name, and an entry of Symbols, once written, is never
\* replaced: so every evaluation of name n returns the value the first created.
C6_SymbolReturned ==
    last.op = "Symbol" =>
        /\ last.name \in DOMAIN CurrentSymbols
        /\ top.returnValue = CurrentSymbols[last.name]
C6_SymbolKept ==
    \A n \in DOMAIN CurrentSymbols :
        n \in DOMAIN CurrentSymbols' /\ CurrentSymbols'[n] = CurrentSymbols[n]
C6_SymbolInterning == []C6_SymbolReturned /\ [][C6_SymbolKept]_vars

\* a symbol is evaluated again in a later run, after other values were created
C6_Witness ==
    /\ last.op = "Symbol"
    /\ runs = 2
    /\ top.returnValue.type = "Symbol"
    /\ top.returnValue.id + 1 < nextId

\* C7: a bare name reads as its binding in the first of: topmost local scope,
\* Object Space, Classes, Modules; Globals are not consulted; when none binds
\* it, the result is no value and a Name error for that name.
C7_ResolutionOrder ==
    last.op = "BareReference" =>
        LET n == last.name IN
        IF Len(localVariableStack) > 0 /\ n \in DOMAIN localVariableStack[1]
        THEN top.returnValue = localVariableStack[1][n]
        ELSE IF n \in DOMAIN ObjectSpace THEN top.returnValue = ObjectSpace[n]
        ELSE IF n \in DOMAIN CurrentClasses THEN top.returnValue = CurrentClasses[n]
        ELSE IF n \in DOMAIN CurrentModules THEN top.returnValue = CurrentModules[n]
        ELSE /\ top.returnValue = GoNil
             /\ top.returnErr.type = "NameError"
             /\ top.returnErr.name = n

\* a name bound in the topmost scope, in Object Space and in Classes is read
C7_Witness ==
    /\ last.op = "BareReference"
    /\ last.name \in DOMAIN localVariableStack[1]
    /\ last.name \in DOMAIN ObjectSpace
    /\ last.name \in DOMAIN CurrentClasses
    /\ localVariableStack[1][last.name] # ObjectSpace[last.name]
    /\ top.returnValue = localVariableStack[1][last.name]

\* a name bound in Globals only is read
C7_WitnessGlobalOnly ==
    /\ last.op = "BareReference"
    /\ last.name \in DOMAIN CurrentGlobals
    /\ top.returnErr.type = "NameError"
    /\ top.returnErr.name = last.name


\* the value of the statement a sequence ends with, for the statement kinds
\* whose value is plain: a literal's value, and for an assignment the value
\* assigned (which the binding written holds)
HasStatedValue(s) ==
    \/ s.kind \in {"ConstantInt", "SimpleString"}
    \/ s.kind = "Assignment" /\ s.LHS.kind \in {"BareReference", "GlobalVariable"}
StatedValue(s) ==
    IF s.kind = "ConstantInt" THEN NewFixnum(s.IntValue)
    ELSE IF s.kind = "SimpleString" THEN NewString(s.StrValue)
    ELSE IF s.LHS.kind = "BareReference" THEN ObjectSpace[s.LHS.Name]
    ELSE CurrentGlobals[s.LHS.Name]

\* C8: a non-empty statement sequence evaluated without error returns the
\* value of its last statement (for an assignment, the value assigned), not a
\* value an earlier statement left.
C8_SequenceResult ==
    (/\ last.op = "ExecReturn"
     /\ ret.err = GoNil
     /\ last.statements # << >>
     /\ HasStatedValue(last.statements[Len(last.statements)])) =>
        ret.value = StatedValue(last.statements[Len(last.statements)])

\* C9: the frame pushed for a call expression is popped when the call
\* returns: when the loop goes on to the next sibling statement, the Call
\* Stack is as deep as it was before the call.
C9_FrameLifetime ==
    (last.op = "CallReturn" /\ InExec /\ top.pc = "statement") =>
        Len(stack) = last.callDepth

\* the step of Run that finds its input does not parse
ParseFails ==
    /\ Running
    /\ top.fn = "Run"
    /\ top.pc = "start"
    /\ Parse(top.input).result # 0

\* C10: a Run whose input does not parse returns no value and a Parse error
\* carrying the current filename, starts no evaluation, pushes no frame and no
\* scope, and leaves Object Space, Globals, Symbols, Classes and Modules as
\* they were.
C10_ParseFailureStep ==
    ParseFails =>
        /\ ret' = [value |-> GoNil,
                   err |-> [type |-> "ParseError", Filename |-> currentFilename]]
        /\ goStack' = Front(goStack)
        /\ UNCHANGED <<stack, localVariableStack, ObjectSpace, CurrentGlobals,
                       CurrentSymbols, CurrentClasses, CurrentModules, currentFilename>>
C10_ParseFailure == [][C10_ParseFailureStep]_vars

\* a required file does not parse: the error names that file
C10_Witness ==
    /\ last.op = "RunParseError"
    /\ ret.err = [type |-> "ParseError", Filename |-> "lib/bad.rb"]
    /\ top.fn = "require"

\* the step of require that searches the load path for a requested name
RequireSearches ==
    /\ ArgsEvaluated
    /\ top.tmp.method = NewNativeMethod("require")
    /\ top.tmp.args # << >>
    /\ top.tmp.args[1].type = "String"
    /\ top.tmp.args[1].str # "rubygems"
\* the positions of the load-path entries under which the name is a readable file
ReadableAt(paths, fileName) ==
    {k \in 1..Len(paths) :
        /\ <<paths[k].str, fileName>> \in DOMAIN FileSystem
        /\ FileSystem[<<paths[k].str, fileName>>].readable}
First(S) == CHOOSE k \in S : \A j \in S : k <= j
\* load paths of up to two entries, and the names requested of them
LoadPaths ==
    LET dirs == {NewString(LibDir), NewString("vendor"), NewString("none")} IN
    {<< >>} \cup {<<a>> : a \in dirs} \cup {<<a, b>> : a \in dirs, b \in dirs}
RequestedNames == {"lib1", "lib2", "bad", "locked", "only", "missing_file"}

\* C11: require of a name other than "rubygems" tries the load-path entries
\* in order and evaluates the first readable match only; when no entry has a
\* readable file the result is a Load error naming the requested name, no
\* script is evaluated and the registries are unchanged.
C11_SearchOrder ==
    \A paths \in LoadPaths : \A fileName \in RequestedNames :
        LET hit == FirstReadable(paths, fileName)
            at == ReadableAt(paths, fileName)
        IN IF at = {} THEN ~hit.found
           ELSE hit.found /\ hit.file = FileSystem[<<paths[First(at)].str, fileName>>]
C11_RequireStep ==
    /\ RequireSearches =>
           LET fileName == top.tmp.args[1].str
               paths == LoadPathArray.members
               at == ReadableAt(paths, fileName)
           IN IF at = {}
              THEN /\ ret' = [value |-> GoNil,
                              err |-> [type |-> "LoadError", name |-> fileName,
                                       backtrace |-> ret'.err.backtrace]]
                   /\ goStack' = Front(goStack)
                   /\ UNCHANGED <<registries, currentFilename, localVariableStack>>
              ELSE LET file == FileSystem[<<paths[First(at)].str, fileName>>] IN
                   /\ Len(goStack') = Len(goStack) + 2
                   /\ goStack'[Len(goStack')].fn = "Run"
                   /\ goStack'[Len(goStack')].input = file.contents
                   /\ currentFilename' = file.name
                   /\ UNCHANGED registries
    /\ (Running /\ top.fn = "require") => goStack' = Front(goStack)
C11_RequireSearch == []C11_SearchOrder /\ [][C11_RequireStep]_vars

\* a file that opens but cannot be read is requested, after an earlier run
\* filled the registries
C11_Witness ==
    /\ last.op = "RequireLoadError"
    /\ last.fileName = "locked"
    /\ ret.err.type = "LoadError"
    /\ ret.err.name = "locked"
    /\ runs = 2
    /\ "x" \in DOMAIN ObjectSpace

\* C12: the host process exits with status 1 whenever Run returned an error
\* (Parse error or evaluation error) and with status 0 when Run returned no
\* error.
C12_ExitStatus ==
    last.op = "MainExit" => last.code = (IF last.err # GoNil THEN 1 ELSE 0)

\* the activation that called the activation at position k of goStack
CallerOf(k) == goStack[k - 1]
CallOf(a) == a.statements[a.i]
\* the resolution of lines 424-436 fails for this target
ResolutionFails(target, name, usePrivateMethod) ==
    target = GoNil \/ ~LookupMethod(target, name, usePrivateMethod).found

\* C13: for a call expression the explicit target is evaluated first, then
\* the method is resolved, then the arguments are evaluated left to right in
\* the caller's context, then the frame is pushed and the method executed.
\* When the target or the resolution fails no argument is evaluated and no
\* frame is pushed; when argument k fails no later argument is evaluated, no
\* frame is pushed and the method is not executed.
C13_Order ==
    /\ last.op = "CallEvalArg" =>
           LET caller == CallerOf(Len(goStack)) IN
           /\ "method" \in DOMAIN caller.tmp
           /\ Len(caller.tmp.args) = last.k - 1
           /\ top.statements = <<CallOf(caller).Args[last.k]>>
           /\ top.context = caller.context
           /\ Len(stack) = caller.tmp.callDepth
    /\ last.op = "CallExecuteRubyMethod" =>
           LET caller == CallerOf(Len(goStack) - 1) IN
           /\ Len(caller.tmp.args) = Len(CallOf(caller).Args)
           /\ Len(stack) = caller.tmp.callDepth + 1
           /\ stack[1] = [name |-> caller.tmp.method.name, file |-> currentFilename]
           /\ top.context = caller.tmp.target
           /\ top.statements = caller.tmp.method.body
C13_FailStep ==
    LET returnsError(err) ==
            /\ goStack' = Front(goStack)
            /\ ret'.value = GoNil
            /\ ret'.err = err
            /\ Len(stack') <= Len(stack)
            /\ UNCHANGED <<registries, localVariableStack>>
    IN
    /\ (AtPc("Call.target") /\ ret.err # GoNil) => returnsError(ret.err)
    /\ (AtPc("Call.target") /\ ret.err = GoNil
           /\ ResolutionFails(ret.value, statement.Func, FALSE)) =>
           returnsError(NewNoMethodError(statement.Func, stack))
    /\ (AtStatement("CallExpression") /\ statement.Target = << >>
           /\ ResolutionFails(top.context, statement.Func, TRUE)) =>
           returnsError(NewNoMethodError(statement.Func, stack))
    /\ (AtPc("Call.arg") /\ ret.err # GoNil) => returnsError(ret.err)
C13_CallOrder == []C13_Order /\ [][C13_FailStep]_vars

\* the second of three arguments has failed: the first was evaluated, the
\* third was not
C13_Witness ==
    /\ last.op = "CallArgReturn"
    /\ last.err # GoNil
    /\ ret.err = last.err
    /\ "c" \in DOMAIN CurrentSymbols
    /\ "d" \notin DOMAIN CurrentSymbols

\* the branch a condition node selects as the text describes it
StatedBranch(ifBlock) ==
    LET condition == ifBlock.Condition IN
    IF condition.kind = "Boolean"
    THEN IF condition.BoolValue THEN ifBlock.Body ELSE ifBlock.Else
    ELSE IF condition.kind = "BareReference"
    THEN IF condition.Name = "nil" THEN ifBlock.Else ELSE ifBlock.Body
    ELSE ifBlock.Body

\* C14: an if-node whose condition is a bare name evaluates its else branch
\* only when the name is literally nil and its body branch for every other
\* bare name; a literal boolean selects by its value; any other condition
\* kind selects the body branch; the condition node itself is not evaluated
\* (the statements evaluated next are those of the branch).
C14_Conditional ==
    last.op = "IfBlock" =>
        LET caller == CallerOf(Len(goStack)) IN
        /\ top.statements = StatedBranch(CallOf(caller))
        /\ top.context = caller.context

\* C15: once the recovery body of a matching clause has completed without
\* error, the search is over: no further exception-class name is compared, no
\* further recovery body is evaluated (the loop goes on to the statement after
\* the Begin) and the construct sets no error.
C15_HandledStep ==
    (AtPc("Begin.recover") /\ ret.err = GoNil) =>
        /\ Len(goStack') = Len(goStack)
        /\ goStack'[Len(goStack)].pc = "statement"
        /\ goStack'[Len(goStack)].i = top.i + 1
        /\ goStack'[Len(goStack)].returnErr = top.returnErr
        /\ UNCHANGED <<registries, stack, localVariableStack>>
\* the symbol that only a recovery body after a handling one would intern
C15_NoLaterRecovery == "never" \notin DOMAIN CurrentSymbols
C15_HandledRescue == []C15_NoLaterRecovery /\ [][C15_HandledStep]_vars

\* the third of four clauses has handled the error after the recovery body of
\* the first failed
C15_Witness ==
    /\ last.op = "BeginRecoverReturn"
    /\ last.err = GoNil
    /\ Len(BeginLeft.Rescue) = 4
    /\ top.returnErr = GoNil

\* the places at or after `from` whose name is the display string of rubyErr
LaterMatches(rescue, rubyErr, from) ==
    {p \in RescuePlaces(rescue) :
        PlaceBefore(from, p) /\ rescue[p[1]].Classes[p[2]] = ErrorString(rubyErr)}
FirstPlace(S) == CHOOSE p \in S : \A q \in S : PlaceBefore(p, q)

\* C16: when a matched recovery body itself raises, the remaining
\* exception-class names of that clause and the remaining clauses are still
\* examined in source order, each compared with the display string of the
\* original error the protected body raised, not with the error the failed
\* recovery body raised.
C16_BodyStep ==
    (AtPc("Begin.body") /\ ret.err # GoNil /\ ret.err.type # "ParseError") =>
        /\ goStack'[Len(goStack)].pc = "Begin.rescue"
        /\ goStack'[Len(goStack)].tmp.rubyErr = ret.err
        /\ goStack'[Len(goStack)].tmp.from = <<1, 1>>
C16_FailStep ==
    (AtPc("Begin.recover") /\ ret.err # GoNil) =>
        /\ Len(goStack') = Len(goStack)
        /\ goStack'[Len(goStack)].pc = "Begin.rescue"
        /\ goStack'[Len(goStack)].tmp.rubyErr = top.tmp.rubyErr
        /\ goStack'[Len(goStack)].tmp.from = <<top.tmp.from[1], top.tmp.from[2] + 1>>
C16_SearchStep ==
    AtPc("Begin.rescue") =>
        LET later == LaterMatches(statement.Rescue, top.tmp.rubyErr, top.tmp.from) IN
        IF later = {}
        THEN /\ Len(goStack') = Len(goStack)
             /\ goStack'[Len(goStack)].pc = "statement"
        ELSE /\ Len(goStack') = Len(goStack) + 1
             /\ goStack'[Len(goStack)].tmp.from = FirstPlace(later)
             /\ goStack'[Len(goStack')].statements =
                    statement.Rescue[FirstPlace(later)[1]].Body
             /\ goStack'[Len(goStack')].context = top.context
C16_FailingRecovery ==
    [][C16_BodyStep /\ C16_FailStep /\ C16_SearchStep]_vars

\* two recovery bodies have failed with a No-method error; the clause naming
\* that error was passed over and a later clause naming the original Name
\* error is entered
C16_Witness ==
    /\ last.op = "BeginRescueMatch"
    /\ last.place = <<3, 1>>
    /\ CallerOf(Len(goStack)).tmp.tried = 3
    /\ CallerOf(Len(goStack)).tmp.rubyErr.type = "NameError"
    /\ CallerOf(Len(goStack)).tmp.err.type = "NoMethodError"

\* is the entry of a registry for a name the one recorded before a declaration
\* (GoNil: there was none)?
EntryIs(registry, name, before) ==
    IF before = GoNil THEN name \notin DOMAIN registry
    ELSE name \in DOMAIN registry /\ registry[name] = before

\* C17: a class or module declaration evaluates its body with the new Class
\* or Module as context before it writes the registry entry of the declared
\* name: when the evaluation of the body starts, the entry is still the one
\* from before the declaration (absent, or the earlier class or module).
C17_DeclarationOrder ==
    /\ last.op = "ClassDecl" =>
           /\ top.context.type = "Class"
           /\ top.context.name = last.name
           /\ EntryIs(CurrentClasses, last.name, last.before)
    /\ last.op = "ModuleDecl" =>
           /\ top.context.type = "Module"
           /\ top.context.name = last.name
           /\ EntryIs(CurrentModules, last.name, last.before)

\* map g is map f with exactly the binding key |-> value written
Written(f, g, key, value) ==
    /\ DOMAIN g = DOMAIN f \cup {key}
    /\ g[key] = value
    /\ \A k \in DOMAIN f \ {key} : g[k] = f[k]

\* C18: an assignment evaluates its right-hand side before it writes any
\* binding; when the right-hand side raises, Object Space, Globals and the
\* instance attributes are unchanged; when it succeeds exactly one binding is
\* written, at the left-hand name: in Object Space for a bare name, in Globals
\* for a global-variable name, in the context's attributes for an
\* instance-variable name, and the other two stores are unchanged.
C18_EvalStep ==
    AtStatement("Assignment") =>
        /\ UNCHANGED <<ObjectSpace, CurrentGlobals, ivars>>
        /\ Len(goStack') = Len(goStack) + 1
        /\ goStack'[Len(goStack')].statements = <<statement.RHS>>
        /\ goStack'[Len(goStack')].context = top.context
C18_WriteStep ==
    AtPc("Assignment.return") =>
        LET lhs == statement.LHS IN
        IF ret.err # GoNil
        THEN /\ UNCHANGED <<ObjectSpace, CurrentGlobals, ivars>>
             /\ ret'.err = ret.err
        ELSE /\ lhs.kind = "BareReference" =>
                    /\ Written(ObjectSpace, ObjectSpace', lhs.Name, ret.value)
                    /\ UNCHANGED <<CurrentGlobals, ivars>>
             /\ lhs.kind = "GlobalVariable" =>
                    /\ Written(CurrentGlobals, CurrentGlobals', lhs.Name, ret.value)
                    /\ UNCHANGED <<ObjectSpace, ivars>>
             /\ lhs.kind = "InstanceVariable" =>
                    /\ Written(ivars, ivars', <<top.context, lhs.Name>>, ret.value)
                    /\ UNCHANGED <<ObjectSpace, CurrentGlobals>>
C18_AssignmentEffect == [][C18_EvalStep /\ C18_WriteStep]_vars

\* an instance-variable assignment has written its binding and the next one,
\* whose right-hand side raised, has written none
C18_Witness ==
    /\ last.op = "AssignmentReturn"
    /\ last.err # GoNil
    /\ <<MainObject, "v">> \in DOMAIN ivars
    /\ <<MainObject, "w">> \notin DOMAIN ivars
    /\ "v" \notin DOMAIN ObjectSpace \cup DOMAIN CurrentGlobals

\* the scope a method body is entered with: its formal parameters only
EntersMethodBody ==
    /\ ArgsEvaluated
    /\ top.tmp.method.type = "RubyMethod"
    /\ Len(localVariableStack') = Len(localVariableStack) + 1
    /\ Tail(localVariableStack') = localVariableStack
    /\ DOMAIN localVariableStack'[1] =
           {top.tmp.method.args[k] : k \in 1..Len(top.tmp.method.args)}

\* C19: a bare-name assignment never writes the Local Variable Stack; the
\* bindings of the topmost scope are written only when a method body is
\* entered (its formal parameters).  So inside a method body with formal
\* parameter p a bare-name read of p yields the argument value, also after
\* the assignment p = v, and everywhere else v is read as p from Object Space.
C19_ScopeStep ==
    /\ AtPc("Assignment.return") => UNCHANGED localVariableStack
    /\ localVariableStack' # localVariableStack =>
           \/ localVariableStack # << >> /\ localVariableStack' = Tail(localVariableStack)
           \/ localVariableStack' = <<EmptyMap>> \o localVariableStack
           \/ EntersMethodBody
C19_Read ==
    last.op = "BareReference" =>
        IF InMethodBody /\ last.name \in Formals(InnermostMethod)
        THEN top.returnValue = BoundValue(InnermostMethod, last.name)
        ELSE last.name \in DOMAIN ObjectSpace => top.returnValue = ObjectSpace[last.name]
C19_LocalsNotAssigned == []C19_Read /\ [][C19_ScopeStep]_vars

\* inside the method body, after p = 3, p still reads as the argument 1
C19_Witness ==
    /\ last.op = "BareReference"
    /\ last.name = "p"
    /\ InMethodBody
    /\ top.i = 3
    /\ top.statements[1] = Assignment(BareReference("p"), ConstantInt(3))
    /\ ObjectSpace["p"] = NewFixnum(3)
    /\ top.returnValue = NewFixnum(1)

\* outside the method body p reads as the value assigned inside it
C19_WitnessOutside ==
    /\ last.op = "BareReference"
    /\ last.name = "p"
    /\ ~InMethodBody
    /\ top.returnValue = NewFixnum(3)

\* the require calls that are evaluating a file, and the file of the innermost
LiveRequires == {k \in 1..Len(goStack) : goStack[k].fn = "require"}
InnermostRequire == CHOOSE k \in LiveRequires : \A j \in LiveRequires : j <= k
RequiredFile(k) ==
    LET fileName == CallerOf(k).tmp.args[1].str
        paths == LoadPathArray.members
    IN FileSystem[<<paths[First(ReadableAt(paths, fileName))].str, fileName>>]
\* the filename in force: the path of the file the innermost live require is
\* evaluating, or the name the VM was created with
FilenameInForce ==
    IF LiveRequires = {} THEN HostFilename ELSE RequiredFile(InnermostRequire).name

\* C20: while a required file is being evaluated the current filename is that
\* file's path, and when the require call has returned (success, error raised
\* inside the file, nested requires, or no match) the current filename is
\* again what it was just before the call; the filename constant reads it.
C20_FilenameRestored ==
    /\ currentFilename = FilenameInForce
    /\ last.op = "FileNameConstReference" => top.returnValue = NewString(FilenameInForce)

\* a nested require has returned an error into the file that required it
C20_Witness ==
    /\ last.op = "RequireReturn"
    /\ ret.err # GoNil
    /\ LiveRequires # {}
    /\ currentFilename = "lib/lib1.rb"

\* the outermost require has returned an error to the host's script
C20_WitnessOutermost ==
    /\ last.op = "RequireReturn"
    /\ ret.err # GoNil
    /\ LiveRequires = {}
    /\ currentFilename = HostFilename

====
